---- MODULE Spec2Model ----
(***************************************************************************)
(* Dining philosophers simulation (philo.c, free.c).                       *)
(*                                                                         *)
(* One task per philosopher runs philosopher_lifecycle; the main task runs *)
(* monitor_simulation_and_cleanup.  Every pthread call, every clock read   *)
(* and every status message is one step of the task that makes it.  The    *)
(* clock `now` is the millisecond time source; it advances independently   *)
(* of the tasks, so every scheduling of the tasks against the clock is     *)
(* explored.                                                               *)
(***************************************************************************)
EXTENDS Integers, Sequences, FiniteSets

VARIABLES
    philosopher_count,    \* sim->philosopher_count
    time_to_die,          \* sim->time_to_die   (ms)
    time_to_eat,          \* sim->time_to_eat   (ms)
    time_to_sleep,        \* sim->time_to_sleep (ms)
    required_meals,       \* sim->required_meals (-1: unbounded)
    simulation_ended,     \* sim->simulation_ended
    fork_mutexes,         \* sim->fork_mutexes[i]: 0 unlocked, id of the holder, -1 destroyed
    data_mutex,           \* sim->data_mutex: 0 unlocked, id of the holding task, -1 destroyed
    last_meal_time,       \* philosophers[i].last_meal_time
    meals_eaten,          \* philosophers[i].meals_eaten
    pc,                   \* position of each philosopher task
    ret,                  \* call site of the running is_simulation_finished
    phase,                \* which philo_spend_time call is running
    start_time,           \* philo_spend_time: start_time
    wake,                 \* earliest clock value at which the running usleep returns
    mpc,                  \* position of the monitor task
    death_philosopher_id, \* evaluate_simulation_status: death_philosopher_id
    all_satisfied,        \* evaluate_simulation_status: all_satisfied
    join_i,               \* cleanup_simulation_resources: i
    mwake,                \* earliest clock value at which the monitor's usleep returns
    now,                  \* get_current_time_ms()
    last_msg,             \* last status message of each philosopher
    fork_msgs,            \* number of "has taken a fork" messages of each philosopher
    died_log,             \* ids of the "died" messages, in order
    late_phases           \* history: phase starts of each philosopher (a fork taken alone, a meal-record
                          \* update, "is sleeping", "is thinking") made while the flag was already set

vars == <<philosopher_count, time_to_die, time_to_eat, time_to_sleep,
          required_meals, simulation_ended, fork_mutexes, data_mutex,
          last_meal_time, meals_eaten, pc, ret, phase, start_time, wake,
          mpc, death_philosopher_id, all_satisfied, join_i,
          mwake, now, last_msg, fork_msgs, died_log,
                   late_phases>>

config == <<philosopher_count, time_to_die, time_to_eat, time_to_sleep, required_meals>>
monitorLocals == <<mpc, death_philosopher_id, all_satisfied, join_i, mwake>>
records == <<last_meal_time, meals_eaten>>
events == <<last_msg, fork_msgs, died_log,
                   late_phases>>

----------------------------------------------------------------------------
\* Bounds of the exploration.
MaxTime == 4
MaxRequiredMeals == 2

PhilosopherCounts == {1, 2}
TimeToDieValues == {2, 3}
TimeToEatValues == {1}
TimeToSleepValues == {1}
RequiredMealsValues == {-1} \cup (1..MaxRequiredMeals)

----------------------------------------------------------------------------
Philosophers == 1..philosopher_count
Forks == 0..(philosopher_count - 1)
MonitorTask == philosopher_count + 1

left_fork_index(id) == id - 1
right_fork_index(id) == id % philosopher_count

\* Variant of AcquireBranch: the two parities are exchanged.
AcquireBranchSwapped(id) == IF id % 2 = 1 THEN "even" ELSE "odd"

\* Variant of AcquireBranch: every philosopher locks its left fork first.
AcquireBranchAllOdd(id) == "odd"

\* acquire_forks: which branch runs, and the fork each branch locks first / second.
AcquireBranch(id) ==
    IF id % 2 = 1 THEN "odd"
    ELSE IF id % 2 = 1 THEN "duplicate"
    ELSE "even"

FirstFork(id) ==
    IF AcquireBranch(id) = "odd" THEN left_fork_index(id) ELSE right_fork_index(id)

SecondFork(id) ==
    IF AcquireBranch(id) = "odd" THEN right_fork_index(id) ELSE left_fork_index(id)

FirstForkMsg(id) ==
    IF AcquireBranch(id) = "odd" THEN "has taken a left fork" ELSE "has taken a right fork"

SecondForkMsg(id) ==
    IF AcquireBranch(id) = "odd" THEN "has taken a right fork" ELSE "has taken a left fork"

\* Variant of SleepIncrementUs: the fixed usleep(500) of the function's comment.
SleepIncrementUsFixed(remaining_time) == 500

\* philo_spend_time: the usleep argument (microseconds) for the remaining time (ms).
SleepIncrementUs(remaining_time) ==
    IF remaining_time > 10 THEN 1000
    ELSE IF remaining_time > 1 THEN 100
    ELSE 10

\* usleep(us) returns after at least us microseconds: the millisecond clock has
\* advanced by at least us \div 1000 when it returns.
UsleepWake(us) == IF us \div 1000 = 0 THEN 0 ELSE now + (us \div 1000)

\* The duration argument of each philo_spend_time call.
Duration(ph) ==
    IF ph = "starve" THEN time_to_die + 1
    ELSE IF ph = "eat" THEN time_to_eat
    ELSE time_to_sleep

\* Where philo_spend_time returns to.
SpendReturnPc(ph) ==
    IF ph = "starve" THEN "one_unlock"
    ELSE IF ph = "eat" THEN "release_left"
    ELSE "is_finished"

SpendReturnRet(ph) == IF ph = "sleep" THEN "after_sleep" ELSE "none"

\* philosopher_eat entry: the single-philosopher branch or acquire_forks.
EatEntryPc == IF philosopher_count = 1 THEN "one_lock" ELSE "acquire_first"

\* monitor_simulation_and_cleanup: check_interval_us.
CheckIntervalUs ==
    LET raw == time_to_die \div 10
    IN  IF raw < 500 THEN 500 ELSE IF raw > 5000 THEN 5000 ELSE raw

\* Variant of DeathScan: the last starving philosopher of the scan wins.
DeathScanLast(i, ct) ==
    LET starving == {j \in (i + 1)..philosopher_count :
                        ct - last_meal_time[j] >= time_to_die}
    IN  IF starving = {} THEN 0
        ELSE CHOOSE j \in starving : \A k \in starving : k <= j

\* check_for_death: the scan from index i (0-based); i + 1 of the first
\* philosopher with current_time - last_meal_time >= time_to_die, else 0.
RECURSIVE DeathScan(_, _)
DeathScan(i, ct) ==
    IF i < philosopher_count
    THEN IF ct - last_meal_time[i + 1] >= time_to_die
         THEN i + 1
         ELSE DeathScan(i + 1, ct)
    ELSE 0

\* check_all_philosophers_satisfied: satisfied_count after the loop from index i.
RECURSIVE SatisfiedCount(_)
SatisfiedCount(i) ==
    IF i < philosopher_count
    THEN (IF meals_eaten[i + 1] >= required_meals THEN 1 ELSE 0) + SatisfiedCount(i + 1)
    ELSE 0

\* Variant of AllPhilosophersSatisfied: the test of required_meals == -1 is missing.
AllPhilosophersSatisfiedNoUnbounded == SatisfiedCount(0) >= philosopher_count

AllPhilosophersSatisfied ==
    IF required_meals = -1 THEN FALSE
    ELSE SatisfiedCount(0) >= philosopher_count

----------------------------------------------------------------------------
\* The state the tasks start from: nobody has eaten, every last_meal_time is the
\* start time, every lock is unlocked.
InitState ==
    /\ simulation_ended = FALSE
    /\ fork_mutexes = [f \in Forks |-> 0]
    /\ data_mutex = 0
    /\ last_meal_time = [p \in Philosophers |-> 0]
    /\ meals_eaten = [p \in Philosophers |-> 0]
    /\ pc = [p \in Philosophers |-> "start"]
    /\ ret = [p \in Philosophers |-> "none"]
    /\ phase = [p \in Philosophers |-> "none"]
    /\ start_time = [p \in Philosophers |-> 0]
    /\ wake = [p \in Philosophers |-> 0]
    /\ mpc = "eval_lock"
    /\ death_philosopher_id = 0
    /\ all_satisfied = FALSE
    /\ join_i = 0
    /\ mwake = 0
    /\ now = 0
    /\ last_msg = [p \in Philosophers |-> "none"]
    /\ fork_msgs = [p \in Philosophers |-> 0]
    /\ died_log = <<>>
    /\ late_phases = [p \in Philosophers |-> 0]

Init ==
    /\ philosopher_count \in PhilosopherCounts
    /\ time_to_die \in TimeToDieValues
    /\ time_to_eat \in TimeToEatValues
    /\ time_to_sleep \in TimeToSleepValues
    /\ required_meals \in RequiredMealsValues
    /\ InitState

----------------------------------------------------------------------------
\* The time source advances.
TickTo(bound) ==
    /\ now < bound
    /\ now' = now + 1
    /\ UNCHANGED <<config, simulation_ended, fork_mutexes, data_mutex, records,
                   pc, ret, phase, start_time, wake, monitorLocals, events>>

Tick == TickTo(MaxTime)

----------------------------------------------------------------------------
\* philosopher_lifecycle, lines 170-172: the staggered start.
LifecycleStart(p) ==
    /\ pc[p] = "start"
    /\ IF p % 2 = 0
       THEN /\ pc' = [pc EXCEPT ![p] = "stagger_usleep"]
            /\ wake' = [wake EXCEPT ![p] = UsleepWake(time_to_eat \div 2)]
            /\ ret' = ret
       ELSE /\ pc' = [pc EXCEPT ![p] = "is_finished"]
            /\ ret' = [ret EXCEPT ![p] = "loop"]
            /\ wake' = wake
    /\ UNCHANGED <<config, simulation_ended, fork_mutexes, data_mutex, records,
                   phase, start_time, monitorLocals, now, events>>

StaggerUsleep(p) ==
    /\ pc[p] = "stagger_usleep"
    /\ now >= wake[p]
    /\ pc' = [pc EXCEPT ![p] = "is_finished"]
    /\ ret' = [ret EXCEPT ![p] = "loop"]
    /\ wake' = [wake EXCEPT ![p] = 0]
    /\ UNCHANGED <<config, simulation_ended, fork_mutexes, data_mutex, records,
                   phase, start_time, monitorLocals, now, events>>

\* Variant of SiteReturnPc: line 179 does not test the flag after the sleep phase.
SiteReturnPcNoCheckAfterSleep(site, finished, ph) ==
    IF site = "loop" THEN (IF finished THEN "returned" ELSE EatEntryPc)
    ELSE IF site = "after_eat" THEN (IF finished THEN "returned" ELSE "print_sleeping")
    ELSE IF site = "after_sleep" THEN "print_thinking"
    ELSE (IF finished THEN SpendReturnPc(ph) ELSE "spend_check")

\* Variant of SiteReturnPc: line 175 does not test the flag after philosopher_eat.
SiteReturnPcNoCheckAfterEat(site, finished, ph) ==
    IF site = "loop" THEN (IF finished THEN "returned" ELSE EatEntryPc)
    ELSE IF site = "after_eat" THEN "print_sleeping"
    ELSE IF site = "after_sleep" THEN (IF finished THEN "returned" ELSE "print_thinking")
    ELSE (IF finished THEN SpendReturnPc(ph) ELSE "spend_check")

\* The branch each call site of is_simulation_finished takes on the value
\* returned: philosopher_lifecycle lines 172, 175, 179 and philo_spend_time line 92.
SiteReturnPc(site, finished, ph) ==
    IF site = "loop" THEN (IF finished THEN "returned" ELSE EatEntryPc)
    ELSE IF site = "after_eat" THEN (IF finished THEN "returned" ELSE "print_sleeping")
    ELSE IF site = "after_sleep" THEN (IF finished THEN "returned" ELSE "print_thinking")
    ELSE (IF finished THEN SpendReturnPc(ph) ELSE "spend_check")

SiteReturnRet(site, finished, ph) ==
    IF site = "spend" /\ finished THEN SpendReturnRet(ph)
    ELSE IF site = "spend" THEN "spend"
    ELSE "none"

\* is_simulation_finished: one critical section of data_mutex that reads the
\* flag; the call site then branches on the value read.
IsSimulationFinished(p) ==
    /\ pc[p] = "is_finished"
    /\ data_mutex = 0
    /\ LET finished == simulation_ended
           site == ret[p]
       IN  /\ pc' = [pc EXCEPT ![p] = SiteReturnPc(site, finished, phase[p])]
           /\ ret' = [ret EXCEPT ![p] = SiteReturnRet(site, finished, phase[p])]
           /\ phase' = [phase EXCEPT ![p] =
                  IF site = "spend" /\ finished THEN "none" ELSE phase[p]]
           /\ start_time' = [start_time EXCEPT ![p] =
                  IF site = "spend" /\ finished THEN 0 ELSE start_time[p]]
    /\ UNCHANGED <<config, simulation_ended, fork_mutexes, data_mutex, records,
                   wake, monitorLocals, now, events>>

----------------------------------------------------------------------------
\* philo_spend_time, line 91: start_time = get_current_time_ms().
SpendStart(p) ==
    /\ pc[p] = "spend_start"
    /\ start_time' = [start_time EXCEPT ![p] = now]
    /\ pc' = [pc EXCEPT ![p] = "is_finished"]
    /\ ret' = [ret EXCEPT ![p] = "spend"]
    /\ UNCHANGED <<config, simulation_ended, fork_mutexes, data_mutex, records,
                   phase, wake, monitorLocals, now, events>>

\* philo_spend_time, lines 94-103: the deadline test and the choice of the increment.
SpendCheck(p) ==
    /\ pc[p] = "spend_check"
    /\ LET elapsed == now - start_time[p]
           remaining_time == Duration(phase[p]) - elapsed
       IN  IF elapsed >= Duration(phase[p])
           THEN /\ pc' = [pc EXCEPT ![p] = SpendReturnPc(phase[p])]
                /\ ret' = [ret EXCEPT ![p] = SpendReturnRet(phase[p])]
                /\ phase' = [phase EXCEPT ![p] = "none"]
                /\ start_time' = [start_time EXCEPT ![p] = 0]
                /\ wake' = wake
           ELSE /\ pc' = [pc EXCEPT ![p] = "spend_usleep"]
                /\ wake' = [wake EXCEPT ![p] = UsleepWake(SleepIncrementUs(remaining_time))]
                /\ UNCHANGED <<ret, phase, start_time>>
    /\ UNCHANGED <<config, simulation_ended, fork_mutexes, data_mutex, records,
                   monitorLocals, now, events>>

\* philo_spend_time: usleep returns, back to the loop test of line 92.
SpendUsleep(p) ==
    /\ pc[p] = "spend_usleep"
    /\ now >= wake[p]
    /\ pc' = [pc EXCEPT ![p] = "is_finished"]
    /\ wake' = [wake EXCEPT ![p] = 0]
    /\ UNCHANGED <<config, simulation_ended, fork_mutexes, data_mutex, records,
                   ret, phase, start_time, monitorLocals, now, events>>


----------------------------------------------------------------------------
\* philosopher_eat, lines 131-132: the single philosopher locks its fork.
OneLock(p) ==
    /\ pc[p] = "one_lock"
    /\ fork_mutexes[left_fork_index(p)] = 0
    /\ fork_mutexes' = [fork_mutexes EXCEPT ![left_fork_index(p)] = p]
    /\ last_msg' = [last_msg EXCEPT ![p] = "has taken a fork"]
    /\ fork_msgs' = [fork_msgs EXCEPT ![p] = fork_msgs[p] + 1]
    /\ pc' = [pc EXCEPT ![p] = "spend_start"]
    /\ phase' = [phase EXCEPT ![p] = "starve"]
    /\ late_phases' = [late_phases EXCEPT ![p] = IF simulation_ended THEN @ + 1 ELSE @]
    /\ UNCHANGED <<config, simulation_ended, data_mutex, records, ret, start_time,
                   wake, monitorLocals, now, died_log>>

\* philosopher_eat, lines 134-135: unlock the fork and return to line 175.
OneUnlock(p) ==
    /\ pc[p] = "one_unlock"
    /\ fork_mutexes' = [fork_mutexes EXCEPT ![left_fork_index(p)] = 0]
    /\ pc' = [pc EXCEPT ![p] = "is_finished"]
    /\ ret' = [ret EXCEPT ![p] = "after_eat"]
    /\ UNCHANGED <<config, simulation_ended, data_mutex, records, phase, start_time,
                   wake, monitorLocals, now, events>>

\* acquire_forks: lock the first fork of the branch and report it.
AcquireFirst(p) ==
    /\ pc[p] = "acquire_first"
    /\ fork_mutexes[FirstFork(p)] = 0
    /\ fork_mutexes' = [fork_mutexes EXCEPT ![FirstFork(p)] = p]
    /\ last_msg' = [last_msg EXCEPT ![p] = FirstForkMsg(p)]
    /\ pc' = [pc EXCEPT ![p] = "acquire_second"]
    /\ UNCHANGED <<config, simulation_ended, data_mutex, records, ret, phase,
                   start_time, wake, monitorLocals, now, fork_msgs, died_log,
                   late_phases>>

\* Variant of AcquireSecond: the second pthread_mutex_lock is missing.
AcquireSecondNoLock(p) ==
    /\ pc[p] = "acquire_second"
    /\ last_msg' = [last_msg EXCEPT ![p] = SecondForkMsg(p)]
    /\ pc' = [pc EXCEPT ![p] = "print_eating"]
    /\ UNCHANGED <<config, simulation_ended, fork_mutexes, data_mutex, records, ret,
                   phase, start_time, wake, monitorLocals, now, fork_msgs, died_log,
                   late_phases>>

\* acquire_forks: lock the second fork of the branch and report it.
AcquireSecond(p) ==
    /\ pc[p] = "acquire_second"
    /\ fork_mutexes[SecondFork(p)] = 0
    /\ fork_mutexes' = [fork_mutexes EXCEPT ![SecondFork(p)] = p]
    /\ last_msg' = [last_msg EXCEPT ![p] = SecondForkMsg(p)]
    /\ pc' = [pc EXCEPT ![p] = "print_eating"]
    /\ UNCHANGED <<config, simulation_ended, data_mutex, records, ret, phase,
                   start_time, wake, monitorLocals, now, fork_msgs, died_log,
                   late_phases>>

\* philosopher_eat, line 138.
PrintEating(p) ==
    /\ pc[p] = "print_eating"
    /\ last_msg' = [last_msg EXCEPT ![p] = "is eating"]
    /\ pc' = [pc EXCEPT ![p] = "meal_lock"]
    /\ UNCHANGED <<config, simulation_ended, fork_mutexes, data_mutex, records, ret,
                   phase, start_time, wake, monitorLocals, now, fork_msgs, died_log,
                   late_phases>>

\* Variant of MealLock: the pthread_mutex_lock of line 139 is missing.
MealLockNoLock(p) ==
    /\ pc[p] = "meal_lock"
    /\ pc' = [pc EXCEPT ![p] = "meal_time"]
    /\ UNCHANGED <<config, simulation_ended, fork_mutexes, data_mutex, records, ret,
                   phase, start_time, wake, monitorLocals, now, events>>

\* philosopher_eat, line 139.
MealLock(p) ==
    /\ pc[p] = "meal_lock"
    /\ data_mutex = 0
    /\ data_mutex' = p
    /\ pc' = [pc EXCEPT ![p] = "meal_time"]
    /\ UNCHANGED <<config, simulation_ended, fork_mutexes, records, ret, phase,
                   start_time, wake, monitorLocals, now, events>>

\* philosopher_eat, line 140.
MealTime(p) ==
    /\ pc[p] = "meal_time"
    /\ last_meal_time' = [last_meal_time EXCEPT ![p] = now]
    /\ pc' = [pc EXCEPT ![p] = "meal_count"]
    /\ UNCHANGED <<config, simulation_ended, fork_mutexes, data_mutex, meals_eaten,
                   ret, phase, start_time, wake, monitorLocals, now, events>>

\* Variant of MealCount: line 141 increments the right neighbour's meals_eaten.
MealCountOfNeighbour(p) ==
    /\ pc[p] = "meal_count"
    /\ meals_eaten' = [meals_eaten EXCEPT ![(p % philosopher_count) + 1] = @ + 1]
    /\ pc' = [pc EXCEPT ![p] = "meal_unlock"]
    /\ late_phases' = [late_phases EXCEPT ![p] = IF simulation_ended THEN @ + 1 ELSE @]
    /\ UNCHANGED <<config, simulation_ended, fork_mutexes, data_mutex, last_meal_time,
                   ret, phase, start_time, wake, monitorLocals, now, last_msg,
                   fork_msgs, died_log>>

\* philosopher_eat, line 141.
MealCount(p) ==
    /\ pc[p] = "meal_count"
    /\ meals_eaten' = [meals_eaten EXCEPT ![p] = meals_eaten[p] + 1]
    /\ pc' = [pc EXCEPT ![p] = "meal_unlock"]
    /\ late_phases' = [late_phases EXCEPT ![p] = IF simulation_ended THEN @ + 1 ELSE @]
    /\ UNCHANGED <<config, simulation_ended, fork_mutexes, data_mutex, last_meal_time,
                   ret, phase, start_time, wake, monitorLocals, now, last_msg,
                   fork_msgs, died_log>>

\* Variant of MealUnlock: the pthread_mutex_unlock of line 142 is missing.
MealUnlockKeepsLock(p) ==
    /\ pc[p] = "meal_unlock"
    /\ pc' = [pc EXCEPT ![p] = "spend_start"]
    /\ phase' = [phase EXCEPT ![p] = "eat"]
    /\ UNCHANGED <<config, simulation_ended, fork_mutexes, data_mutex, records, ret,
                   start_time, wake, monitorLocals, now, events>>

\* philosopher_eat, lines 142-143: unlock and enter philo_spend_time(time_to_eat).
MealUnlock(p) ==
    /\ pc[p] = "meal_unlock"
    /\ data_mutex' = 0
    /\ pc' = [pc EXCEPT ![p] = "spend_start"]
    /\ phase' = [phase EXCEPT ![p] = "eat"]
    /\ UNCHANGED <<config, simulation_ended, fork_mutexes, records, ret, start_time,
                   wake, monitorLocals, now, events>>

\* Variant of ReleaseLeft: the pthread_mutex_unlock of line 64 is missing.
ReleaseLeftKeepsLock(p) ==
    /\ pc[p] = "release_left"
    /\ pc' = [pc EXCEPT ![p] = "release_right"]
    /\ UNCHANGED <<config, simulation_ended, fork_mutexes, data_mutex, records, ret,
                   phase, start_time, wake, monitorLocals, now, events>>

\* release_forks, line 64.
ReleaseLeft(p) ==
    /\ pc[p] = "release_left"
    /\ fork_mutexes' = [fork_mutexes EXCEPT ![left_fork_index(p)] = 0]
    /\ pc' = [pc EXCEPT ![p] = "release_right"]
    /\ UNCHANGED <<config, simulation_ended, data_mutex, records, ret, phase,
                   start_time, wake, monitorLocals, now, events>>

\* Variant of ReleaseRight: the pthread_mutex_unlock of line 65 is missing.
ReleaseRightKeepsLock(p) ==
    /\ pc[p] = "release_right"
    /\ pc' = [pc EXCEPT ![p] = "is_finished"]
    /\ ret' = [ret EXCEPT ![p] = "after_eat"]
    /\ UNCHANGED <<config, simulation_ended, fork_mutexes, data_mutex, records, phase,
                   start_time, wake, monitorLocals, now, events>>

\* Variant of ReleaseRight: line 65 unlocks the left fork a second time.
ReleaseRightUnlocksLeft(p) ==
    /\ pc[p] = "release_right"
    /\ fork_mutexes' = [fork_mutexes EXCEPT ![left_fork_index(p)] = 0]
    /\ pc' = [pc EXCEPT ![p] = "is_finished"]
    /\ ret' = [ret EXCEPT ![p] = "after_eat"]
    /\ UNCHANGED <<config, simulation_ended, data_mutex, records, phase, start_time,
                   wake, monitorLocals, now, events>>

\* release_forks, line 65, and the return to line 175.
ReleaseRight(p) ==
    /\ pc[p] = "release_right"
    /\ fork_mutexes' = [fork_mutexes EXCEPT ![right_fork_index(p)] = 0]
    /\ pc' = [pc EXCEPT ![p] = "is_finished"]
    /\ ret' = [ret EXCEPT ![p] = "after_eat"]
    /\ UNCHANGED <<config, simulation_ended, data_mutex, records, phase, start_time,
                   wake, monitorLocals, now, events>>

\* philosopher_lifecycle, lines 177-178.
PrintSleeping(p) ==
    /\ pc[p] = "print_sleeping"
    /\ last_msg' = [last_msg EXCEPT ![p] = "is sleeping"]
    /\ pc' = [pc EXCEPT ![p] = "spend_start"]
    /\ phase' = [phase EXCEPT ![p] = "sleep"]
    /\ late_phases' = [late_phases EXCEPT ![p] = IF simulation_ended THEN @ + 1 ELSE @]
    /\ UNCHANGED <<config, simulation_ended, fork_mutexes, data_mutex, records, ret,
                   start_time, wake, monitorLocals, now, fork_msgs, died_log>>

\* philosopher_lifecycle, lines 181-183.
PrintThinking(p) ==
    /\ pc[p] = "print_thinking"
    /\ last_msg' = [last_msg EXCEPT ![p] = "is thinking"]
    /\ IF philosopher_count % 2 = 1
       THEN /\ pc' = [pc EXCEPT ![p] = "think_usleep"]
            /\ wake' = [wake EXCEPT ![p] = UsleepWake(100)]
            /\ ret' = ret
       ELSE /\ pc' = [pc EXCEPT ![p] = "is_finished"]
            /\ ret' = [ret EXCEPT ![p] = "loop"]
            /\ wake' = wake
    /\ late_phases' = [late_phases EXCEPT ![p] = IF simulation_ended THEN @ + 1 ELSE @]
    /\ UNCHANGED <<config, simulation_ended, fork_mutexes, data_mutex, records,
                   phase, start_time, monitorLocals, now, fork_msgs, died_log>>

\* philosopher_lifecycle, line 183: usleep(100) returns, back to line 172.
ThinkUsleep(p) ==
    /\ pc[p] = "think_usleep"
    /\ now >= wake[p]
    /\ pc' = [pc EXCEPT ![p] = "is_finished"]
    /\ ret' = [ret EXCEPT ![p] = "loop"]
    /\ wake' = [wake EXCEPT ![p] = 0]
    /\ UNCHANGED <<config, simulation_ended, fork_mutexes, data_mutex, records,
                   phase, start_time, monitorLocals, now, events>>

----------------------------------------------------------------------------
\* evaluate_simulation_status, line 64.
EvalLock ==
    /\ mpc = "eval_lock"
    /\ data_mutex = 0
    /\ data_mutex' = MonitorTask
    /\ mpc' = "check_death"
    /\ UNCHANGED <<config, simulation_ended, fork_mutexes, records, pc, ret, phase,
                   start_time, wake, death_philosopher_id,
                   all_satisfied, join_i, mwake, now, events>>

\* Variant of CheckForDeath: a satisfied table is not scanned for a death.
CheckForDeathUnlessSatisfied ==
    /\ mpc = "check_death"
    /\ LET current_time == now
           found == IF AllPhilosophersSatisfied THEN 0 ELSE DeathScan(0, current_time)
       IN  /\ death_philosopher_id' = found
           /\ simulation_ended' = IF found > 0 THEN TRUE ELSE simulation_ended
           /\ mpc' = IF found > 0 THEN "death_unlock" ELSE "check_satisfied"
    /\ UNCHANGED <<config, fork_mutexes, data_mutex, records, pc, ret, phase,
                   start_time, wake, all_satisfied, join_i, mwake, now, events>>

\* evaluate_simulation_status, lines 65-66: check_for_death (lines 15-34).
CheckForDeath ==
    /\ mpc = "check_death"
    /\ LET current_time == now
           found == DeathScan(0, current_time)
       IN  /\ death_philosopher_id' = found
           /\ simulation_ended' = IF found > 0 THEN TRUE ELSE simulation_ended
           /\ mpc' = IF found > 0 THEN "death_unlock" ELSE "check_satisfied"
    /\ UNCHANGED <<config, fork_mutexes, data_mutex, records, pc, ret, phase,
                   start_time, wake, all_satisfied, join_i, mwake, now, events>>

\* evaluate_simulation_status, line 68.
DeathUnlock ==
    /\ mpc = "death_unlock"
    /\ data_mutex' = 0
    /\ mpc' = "print_died"
    /\ UNCHANGED <<config, simulation_ended, fork_mutexes, records, pc, ret, phase,
                   start_time, wake, death_philosopher_id,
                   all_satisfied, join_i, mwake, now, events>>

\* evaluate_simulation_status, lines 69-70; the loop of line 110 breaks.
PrintDied ==
    /\ mpc = "print_died"
    /\ died_log' = Append(died_log, death_philosopher_id)
    /\ mpc' = "join"
    /\ join_i' = 0
    /\ UNCHANGED <<config, simulation_ended, fork_mutexes, data_mutex, records, pc,
                   ret, phase, start_time, wake, death_philosopher_id,
                   all_satisfied, mwake, now, last_msg, fork_msgs,
                   late_phases>>

\* evaluate_simulation_status, line 72: check_all_philosophers_satisfied (lines 36-57).
CheckSatisfied ==
    /\ mpc = "check_satisfied"
    /\ all_satisfied' = AllPhilosophersSatisfied
    /\ simulation_ended' = IF AllPhilosophersSatisfied THEN TRUE ELSE simulation_ended
    /\ mpc' = "eval_unlock"
    /\ UNCHANGED <<config, fork_mutexes, data_mutex, records, pc, ret, phase,
                   start_time, wake, death_philosopher_id, join_i,
                   mwake, now, events>>

\* Variant of EvalUnlock: the pthread_mutex_unlock of line 73 is missing.
EvalUnlockKeepsLock ==
    /\ mpc = "eval_unlock"
    /\ IF all_satisfied
       THEN /\ mpc' = "join"
            /\ join_i' = 0
            /\ mwake' = mwake
       ELSE /\ mpc' = "monitor_usleep"
            /\ mwake' = UsleepWake(CheckIntervalUs)
            /\ join_i' = join_i
    /\ UNCHANGED <<config, simulation_ended, fork_mutexes, data_mutex, records, pc, ret,
                   phase, start_time, wake, death_philosopher_id, all_satisfied, now,
                   events>>

\* Variant of EvalUnlock: evaluate_simulation_status returns FALSE instead of all_satisfied.
EvalUnlockAlwaysLoops ==
    /\ mpc = "eval_unlock"
    /\ data_mutex' = 0
    /\ mpc' = "monitor_usleep"
    /\ mwake' = UsleepWake(CheckIntervalUs)
    /\ UNCHANGED <<config, simulation_ended, fork_mutexes, records, pc, ret, phase,
                   start_time, wake, death_philosopher_id, all_satisfied, join_i,
                   now, events>>

\* evaluate_simulation_status, lines 73-74, and lines 112-114 of the monitor loop.
EvalUnlock ==
    /\ mpc = "eval_unlock"
    /\ data_mutex' = 0
    /\ IF all_satisfied
       THEN /\ mpc' = "join"
            /\ join_i' = 0
            /\ mwake' = mwake
       ELSE /\ mpc' = "monitor_usleep"
            /\ mwake' = UsleepWake(CheckIntervalUs)
            /\ join_i' = join_i
    /\ UNCHANGED <<config, simulation_ended, fork_mutexes, records, pc, ret, phase,
                   start_time, wake, death_philosopher_id,
                   all_satisfied, now, events>>

\* monitor_simulation_and_cleanup, line 114: usleep returns, back to line 112.
MonitorUsleep ==
    /\ mpc = "monitor_usleep"
    /\ now >= mwake
    /\ mpc' = "eval_lock"
    /\ mwake' = 0
    /\ UNCHANGED <<config, simulation_ended, fork_mutexes, data_mutex, records, pc,
                   ret, phase, start_time, wake, death_philosopher_id,
                   all_satisfied, join_i, now, events>>

\* Variant of Joinable: cleanup does not wait for the thread.
JoinableAlways(i) == TRUE

\* pthread_join returns once the thread has returned from philosopher_lifecycle.
Joinable(i) == pc[i + 1] = "returned"

\* cleanup_simulation_resources, lines 81-83: one pthread_join.
Join ==
    /\ mpc = "join"
    /\ Joinable(join_i)
    /\ IF join_i + 1 < philosopher_count
       THEN /\ join_i' = join_i + 1
            /\ mpc' = mpc
       ELSE /\ join_i' = 0
            /\ mpc' = "destroy_forks"
    /\ UNCHANGED <<config, simulation_ended, fork_mutexes, data_mutex, records, pc,
                   ret, phase, start_time, wake, death_philosopher_id,
                   all_satisfied, mwake, now, events>>

\* cleanup_simulation_resources, lines 84-86: one pthread_mutex_destroy of a fork.
DestroyFork ==
    /\ mpc = "destroy_forks"
    /\ fork_mutexes' = [fork_mutexes EXCEPT ![join_i] = -1]
    /\ IF join_i + 1 < philosopher_count
       THEN /\ join_i' = join_i + 1
            /\ mpc' = mpc
       ELSE /\ join_i' = 0
            /\ mpc' = "destroy_data"
    /\ UNCHANGED <<config, simulation_ended, data_mutex, records, pc, ret, phase,
                   start_time, wake, death_philosopher_id,
                   all_satisfied, mwake, now, events>>

\* cleanup_simulation_resources, lines 87-98: destroy the state lock, free the arrays.
DestroyData ==
    /\ mpc = "destroy_data"
    /\ data_mutex' = -1
    /\ mpc' = "done"
    /\ UNCHANGED <<config, simulation_ended, fork_mutexes, records, pc, ret, phase,
                   start_time, wake, death_philosopher_id,
                   all_satisfied, join_i, mwake, now, events>>

----------------------------------------------------------------------------
\* The steps of philosopher_lifecycle that exist for every philosopher_count.
CommonLifecycle(p) ==
    \/ LifecycleStart(p)
    \/ StaggerUsleep(p)
    \/ IsSimulationFinished(p)
    \/ SpendStart(p)
    \/ SpendCheck(p)
    \/ SpendUsleep(p)
    \/ PrintSleeping(p)
    \/ PrintThinking(p)
    \/ ThinkUsleep(p)

\* philosopher_eat with philosopher_count == 1.
SingleEat(p) ==
    \/ OneLock(p)
    \/ OneUnlock(p)

\* philosopher_eat with philosopher_count >= 2.
PairEat(p) ==
    \/ AcquireFirst(p)
    \/ AcquireSecond(p)
    \/ PrintEating(p)
    \/ MealLock(p)
    \/ MealTime(p)
    \/ MealCount(p)
    \/ MealUnlock(p)
    \/ ReleaseLeft(p)
    \/ ReleaseRight(p)

Lifecycle(p) == CommonLifecycle(p) \/ SingleEat(p) \/ PairEat(p)

Monitor ==
    \/ EvalLock
    \/ CheckForDeath
    \/ DeathUnlock
    \/ PrintDied
    \/ CheckSatisfied
    \/ EvalUnlock
    \/ MonitorUsleep
    \/ Join
    \/ DestroyFork
    \/ DestroyData

Next ==
    \/ Tick
    \/ \E p \in Philosophers : Lifecycle(p)
    \/ Monitor

\* One or two philosophers, every configuration of the bounds.
Spec == Init /\ [][Next]_vars

----------------------------------------------------------------------------
\* The ring: two or three philosophers competing for the forks.
RingMaxTime == 2
RingCounts == {2, 3}
RingTimeToDieValues == {2}
RingRequiredMealsValues == {1}

RingInit ==
    /\ philosopher_count \in RingCounts
    /\ time_to_die \in RingTimeToDieValues
    /\ time_to_eat \in TimeToEatValues
    /\ time_to_sleep \in TimeToSleepValues
    /\ required_meals \in RingRequiredMealsValues
    /\ InitState

RingTick == TickTo(RingMaxTime)

RingNext ==
    \/ RingTick
    \/ \E p \in Philosophers : CommonLifecycle(p) \/ PairEat(p)
    \/ Monitor

RingSpec == RingInit /\ [][RingNext]_vars

----------------------------------------------------------------------------
\* Positions and holdings, read off the position of each task.

\* Forks a philosopher has locked and not yet unlocked, by its position in
\* philosopher_eat / acquire_forks / release_forks.
HoldsBoth(p) ==
    \/ pc[p] \in {"print_eating", "meal_lock", "meal_time", "meal_count",
                  "meal_unlock", "release_left"}
    \/ phase[p] = "eat"

HeldForks(p) ==
    IF HoldsBoth(p) THEN {left_fork_index(p), right_fork_index(p)}
    ELSE IF pc[p] = "acquire_second" THEN {FirstFork(p)}
    ELSE IF pc[p] = "release_right" THEN {right_fork_index(p)}
    ELSE IF pc[p] = "one_unlock" \/ phase[p] = "starve" THEN {left_fork_index(p)}
    ELSE {}

\* The eating wait: philo_spend_time(time_to_eat) of line 143.
InEatingWait(p) == phase[p] = "eat" /\ pc[p] # "spend_start"

\* The lock a task's next step needs and that another task holds: the holder, else 0.
Holder(h, self) == IF h <= 0 \/ h = self THEN 0 ELSE h

BlockedOn(t) ==
    IF t = MonitorTask
    THEN IF mpc = "eval_lock" THEN Holder(data_mutex, t)
         ELSE IF mpc = "join" /\ pc[join_i + 1] # "returned" THEN join_i + 1
         ELSE 0
    ELSE IF pc[t] = "acquire_first" THEN Holder(fork_mutexes[FirstFork(t)], t)
    ELSE IF pc[t] = "acquire_second" THEN Holder(fork_mutexes[SecondFork(t)], t)
    ELSE IF pc[t] = "one_lock" THEN Holder(fork_mutexes[left_fork_index(t)], t)
    ELSE IF pc[t] \in {"is_finished", "meal_lock"} THEN Holder(data_mutex, t)
    ELSE 0

\* The task reached from t after n steps along the wait-for relation (0: a task that can run).
RECURSIVE FollowWait(_, _)
FollowWait(t, n) ==
    IF t = 0 \/ n = 0 THEN t ELSE FollowWait(BlockedOn(t), n - 1)

Tasks == 1..MonitorTask

BlockedOnFork(p) ==
    /\ pc[p] \in {"acquire_first", "acquire_second"}
    /\ BlockedOn(p) # 0

----------------------------------------------------------------------------
\* C1: with two or more philosophers no circular wait is reachable: from every
\* task, following "waits for the holder of the lock it requests" ends, within
\* as many steps as there are tasks, at a task that can run; in particular no
\* set of philosophers each hold one fork and wait for a fork held in the set.
C1_NoCircularWait ==
    philosopher_count >= 2 =>
        /\ \A t \in Tasks : FollowWait(t, MonitorTask) = 0
        /\ ~ \E S \in (SUBSET Philosophers) \ {{}} :
               \A p \in S : /\ pc[p] = "acquire_second"
                            /\ fork_mutexes[SecondFork(p)] \in S \ {p}

\* C1 witness: in the ring of three, one philosopher holds its first fork and
\* waits for its second while another waits for a fork too.
C1_Witness ==
    /\ philosopher_count = 3
    /\ \E p, q \in Philosophers :
          /\ p # q
          /\ pc[p] = "acquire_second"
          /\ BlockedOnFork(p)
          /\ BlockedOnFork(q)

\* C2: every fork is held by at most one philosopher, the lock agrees with the
\* holder, and two philosophers that share a fork are never both in the
\* eating wait.
C2_MutualExclusion ==
    /\ \A f \in Forks : Cardinality({p \in Philosophers : f \in HeldForks(p)}) <= 1
    /\ \A p \in Philosophers : \A f \in HeldForks(p) : fork_mutexes[f] = p
    /\ \A p, q \in Philosophers :
          (p # q /\ philosopher_count >= 2
             /\ {left_fork_index(p), right_fork_index(p)}
                  \cap {left_fork_index(q), right_fork_index(q)} # {})
          => ~ (InEatingWait(p) /\ InEatingWait(q))

\* C2 witness: a philosopher is in its eating wait while a neighbour is blocked
\* on a fork it holds.
C2_Witness ==
    \E p, q \in Philosophers :
        /\ p # q
        /\ InEatingWait(p)
        /\ BlockedOnFork(q)
        /\ BlockedOn(q) = p


----------------------------------------------------------------------------
\* Positions of the monitor from which a scan can still set the flag.
ScanPositions == {"eval_lock", "check_death", "check_satisfied", "monitor_usleep"}

\* C3: the termination flag latches: once true it stays true, and once it is
\* true the monitor is past its polling loop and never scans again.
C3_FlagLatches ==
    /\ [][simulation_ended => simulation_ended']_vars
    /\ [](simulation_ended => mpc \notin ScanPositions)

\* C3 witness: the flag was set by the satisfaction scan and the run has finished.
C3_Witness == simulation_ended /\ all_satisfied /\ mpc = "done"

\* C5: the monitor's scan picks philosopher i only if i is starving at the
\* scan's clock value and no philosopher with a smaller id is; the "died"
\* message names the scan's pick, is the only one of the run, and is emitted
\* with the flag set and the state lock released.
C5_DeathCheck ==
    /\ [][(mpc = "check_death" /\ death_philosopher_id' > 0) =>
            /\ death_philosopher_id' \in Philosophers
            /\ data_mutex = MonitorTask
            /\ now - last_meal_time[death_philosopher_id'] >= time_to_die
            /\ \A j \in 1..(death_philosopher_id' - 1) :
                   now - last_meal_time[j] < time_to_die]_vars
    /\ [][mpc # "check_death" => death_philosopher_id' = death_philosopher_id]_vars
    /\ [][died_log' # died_log =>
            /\ died_log = <<>>
            /\ died_log' = <<death_philosopher_id>>
            /\ death_philosopher_id > 0
            /\ simulation_ended
            /\ data_mutex # MonitorTask]_vars
    /\ [](Len(died_log) <= 1)

\* C5 witness: philosopher 2 was reported dead although philosopher 1 was scanned first.
C5_Witness == died_log = <<2>> /\ meals_eaten[1] > 0

\* C6: the satisfaction scan sets the flag only when required_meals is set and
\* every philosopher has eaten at least required_meals times; a finished run
\* without a "died" message is such a run; with required_meals = -1 the flag is
\* only ever set by the death scan.
C6_RequiredMeals ==
    /\ [][(mpc = "check_satisfied" /\ (all_satisfied' \/ simulation_ended')) =>
            /\ required_meals # -1
            /\ \A p \in Philosophers : meals_eaten[p] >= required_meals]_vars
    /\ [](all_satisfied => simulation_ended /\ died_log = <<>>)
    /\ [](mpc = "done" => (died_log = <<>>) = all_satisfied)
    /\ [](required_meals = -1 /\ simulation_ended => death_philosopher_id > 0)

\* C6 witness: a run with required_meals = 2 has ended AllSatisfied.
C6_Witness == required_meals = 2 /\ all_satisfied /\ mpc = "done"

\* C7 (as claimed): a single philosopher never emits "has taken a fork" a
\* second time, never eats, and the run ends with Died(1) reported at or after
\* time_to_die.
C7_SinglePhilosopher ==
    philosopher_count = 1 =>
        /\ fork_msgs[1] <= 1
        /\ meals_eaten[1] = 0
        /\ last_msg[1] # "is eating"
        /\ (mpc = "done" => died_log = <<1>>)
        /\ (died_log # <<>> => now >= time_to_die)

\* C8 (as claimed): once the flag is true no philosopher begins a phase or
\* updates its meal record.
C8_NoPhaseAfterFlag ==
    \A p \in Philosophers : late_phases[p] = 0

\* C8 (amended): once the flag is true every philosopher begins at most one
\* more phase and makes at most one more meal-record update (the phase that
\* follows its last read of the flag as false); a philosopher that has read
\* the flag as true has returned.
C8_AtMostOnePhaseAfterFlag ==
    \A p \in Philosophers :
        /\ late_phases[p] <= 1
        /\ (pc[p] = "returned" => simulation_ended)

\* C8 witness: a philosopher updated its meal record after the flag was set.
C8_Witness ==
    \E p \in Philosophers :
        late_phases[p] = 1 /\ last_msg[p] = "is eating" /\ pc[p] = "returned"

\* C9 (as claimed): a philosopher that holds a fork neither holds the state
\* lock nor requests it (the request of philosopher_eat line 139).
C9_NoStateLockWhileHoldingFork ==
    \A p \in Philosophers :
        HeldForks(p) # {} => data_mutex # p /\ pc[p] # "meal_lock"

\* C9 (amended): the nesting is forks first, then the state lock: a
\* philosopher holds the state lock only for its meal-record update, with both
\* its forks locked, and no task requests a fork while it holds the state lock.
C9_ForksBeforeStateLock ==
    /\ \A p \in Philosophers :
          data_mutex = p =>
              /\ pc[p] \in {"meal_time", "meal_count", "meal_unlock"}
              /\ fork_mutexes[left_fork_index(p)] = p
              /\ fork_mutexes[right_fork_index(p)] = p
    /\ \A p \in Philosophers :
          pc[p] \in {"acquire_first", "acquire_second", "one_lock"} => data_mutex # p

\* C9 witness: a philosopher holds the state lock and both its forks.
C9_Witness ==
    \E p \in Philosophers :
        /\ data_mutex = p
        /\ fork_mutexes[left_fork_index(p)] = p
        /\ fork_mutexes[right_fork_index(p)] = p

\* C10: a lock is destroyed only after every philosopher task has returned:
\* from the first destroy on, no philosopher holds or requests a fork or the
\* state lock, and every lock destroyed was unlocked.
C10_TeardownOrdering ==
    /\ [](((mpc \in {"destroy_forks", "destroy_data", "done"})
            \/ data_mutex = -1
            \/ (\E f \in Forks : fork_mutexes[f] = -1))
          => /\ \A p \in Philosophers : pc[p] = "returned" /\ HeldForks(p) = {}
             /\ \A f \in Forks : fork_mutexes[f] \in {0, -1}
             /\ data_mutex \in {0, -1})
    /\ [][\A f \in Forks : fork_mutexes'[f] = -1 => fork_mutexes[f] \in {0, -1}]_vars
    /\ [][data_mutex' = -1 => data_mutex \in {0, -1}]_vars

\* C10 witness: the forks are destroyed and the state lock is about to be.
C10_Witness ==
    /\ mpc = "destroy_data"
    /\ \A f \in Forks : fork_mutexes[f] = -1
    /\ philosopher_count = 2

----------------------------------------------------------------------------
\* Termination under fair scheduling: every task that can take a step
\* eventually takes one (the scheduler runs every runnable thread; a mutex
\* gives no more than that to the threads waiting for it).
LiveMaxTime == 2
LiveIds == {1, 2}
LiveTimeToDieValues == {2}
LiveRequiredMealsValues == {-1, 1}

LiveInit ==
    /\ philosopher_count \in LiveIds
    /\ time_to_die \in LiveTimeToDieValues
    /\ time_to_eat \in TimeToEatValues
    /\ time_to_sleep \in TimeToSleepValues
    /\ required_meals \in LiveRequiredMealsValues
    /\ InitState

LiveTick == TickTo(LiveMaxTime)

LiveNext ==
    \/ LiveTick
    \/ \E p \in Philosophers : Lifecycle(p)
    \/ Monitor

LiveSpec ==
    /\ LiveInit
    /\ [][LiveNext]_vars
    /\ \A p \in LiveIds : WF_vars(p \in Philosophers /\ Lifecycle(p))
    /\ WF_vars(Monitor)

AllReturned == \A p \in Philosophers : pc[p] = "returned"

\* C4: once the flag is true, every philosopher task eventually returns from
\* philosopher_lifecycle and the monitor's joins eventually complete.
C4_Termination ==
    /\ simulation_ended ~> AllReturned
    /\ simulation_ended ~> (mpc \in {"destroy_forks", "destroy_data", "done"})

\* C4 witness: every task has returned although one of them was blocked on a
\* fork when the flag was set (it made its meal-record update afterwards).
C4_Witness ==
    /\ AllReturned
    /\ mpc = "destroy_forks"
    /\ \E p \in Philosophers : late_phases[p] = 1 /\ last_msg[p] = "is eating"

----------------------------------------------------------------------------
\* Progress under prompt scheduling: a task that can take a step takes it
\* before the millisecond clock advances (the scheduler runs every runnable
\* thread within the millisecond), and the clock keeps advancing.
PromptMaxTime == 4
PromptIds == {1, 2, 3}
PromptCounts == {2, 3}
PromptTimeToDieValues == {4}
PromptRequiredMealsValues == {1}

PromptInit ==
    /\ philosopher_count \in PromptCounts
    /\ time_to_die \in PromptTimeToDieValues
    /\ time_to_eat \in TimeToEatValues
    /\ time_to_sleep \in TimeToSleepValues
    /\ required_meals \in PromptRequiredMealsValues
    /\ InitState

\* A philosopher with no step due: returned, blocked on a lock, or polling in
\* philo_spend_time with the flag false and the duration not yet elapsed.
PhilosopherWaits(p) ==
    \/ pc[p] = "returned"
    \/ BlockedOn(p) # 0
    \/ /\ ret[p] = "spend"
       /\ pc[p] \in {"is_finished", "spend_check", "spend_usleep"}
       /\ ~ simulation_ended
       /\ now - start_time[p] < Duration(phase[p])

\* The monitor with no step due: in the usleep of line 114, blocked, or done.
MonitorWaits ==
    \/ mpc \in {"monitor_usleep", "done"}
    \/ BlockedOn(MonitorTask) # 0

PromptTick ==
    /\ \A p \in Philosophers : PhilosopherWaits(p)
    /\ MonitorWaits
    /\ TickTo(PromptMaxTime)

PromptNext ==
    \/ PromptTick
    \/ \E p \in Philosophers : CommonLifecycle(p) \/ PairEat(p)
    \/ Monitor

\* Fairness: a philosopher that can take a step again and again eventually
\* takes one (its lock requests compete with the monitor's scans, which repeat
\* within a millisecond), the monitor takes a step it can take, and the clock
\* advances whenever again and again no task has a step due.
PromptSpec ==
    /\ PromptInit
    /\ [][PromptNext]_vars
    /\ \A p \in PromptIds : SF_vars(p \in Philosophers /\ (CommonLifecycle(p) \/ PairEat(p)))
    /\ WF_vars(Monitor)
    /\ SF_vars(PromptTick)

AllHaveEaten == \A p \in Philosophers : meals_eaten[p] >= 1

NobodyInAcquire == \A p \in Philosophers : pc[p] \notin {"acquire_first", "acquire_second"}

----------------------------------------------------------------------------
\* The fork a philosopher of each parity is claimed to lock first / second.
ClaimedFirst(p) == IF p % 2 = 1 THEN p - 1 ELSE p % philosopher_count
ClaimedSecond(p) == IF p % 2 = 1 THEN p % philosopher_count ELSE p - 1

\* C12: with two or more philosophers every fork lock of a philosopher is
\* taken in the parity order: the step that locks a fork while the philosopher
\* holds none locks its left fork (odd id) or its right fork (even id), the
\* step that completes the pair locks the other one, "is eating" is reached
\* only through these two steps, and acquire_forks never runs its duplicated
\* 'else if' branch.
C12_ParityOrder ==
    /\ [][\A p \in Philosophers :
            (pc[p] = "acquire_first" /\ pc'[p] # "acquire_first") =>
                /\ pc'[p] = "acquire_second"
                /\ fork_mutexes[ClaimedFirst(p)] = 0
                /\ fork_mutexes'[ClaimedFirst(p)] = p
                /\ fork_mutexes'[ClaimedSecond(p)] # p
                /\ last_msg'[p] = IF p % 2 = 1 THEN "has taken a left fork"
                                               ELSE "has taken a right fork"]_vars
    /\ [][\A p \in Philosophers :
            (pc[p] = "acquire_second" /\ pc'[p] # "acquire_second") =>
                /\ pc'[p] = "print_eating"
                /\ fork_mutexes[ClaimedFirst(p)] = p
                /\ fork_mutexes[ClaimedSecond(p)] = 0
                /\ fork_mutexes'[ClaimedFirst(p)] = p
                /\ fork_mutexes'[ClaimedSecond(p)] = p
                /\ last_msg'[p] = IF p % 2 = 1 THEN "has taken a right fork"
                                               ELSE "has taken a left fork"]_vars
    /\ [][\A p \in Philosophers :
            /\ (pc'[p] = "print_eating" /\ pc[p] # "print_eating") => pc[p] = "acquire_second"
            /\ (pc'[p] = "acquire_second" /\ pc[p] # "acquire_second") => pc[p] = "acquire_first"]_vars
    /\ [](\A p \in Philosophers : AcquireBranch(p) # "duplicate")
    /\ [](\A p \in Philosophers :
            fork_mutexes[ClaimedSecond(p)] = p => fork_mutexes[ClaimedFirst(p)] = p
                                                  \/ pc[p] = "release_right")

\* C12 witness: in the ring of three, philosopher 1 (odd) holds only its left
\* fork and philosopher 2 (even) holds only its right fork.
C12_Witness ==
    /\ philosopher_count = 3
    /\ pc[1] = "acquire_second" /\ fork_mutexes[0] = 1 /\ fork_mutexes[1] = 0
    /\ pc[2] = "acquire_second" /\ fork_mutexes[2] = 2

----------------------------------------------------------------------------
\* Positions at which a philosopher sleeps, polls in a responsive wait, or
\* requests a fork lock.
WaitPositions ==
    {"stagger_usleep", "spend_start", "spend_check", "spend_usleep", "think_usleep",
     "acquire_first", "acquire_second", "one_lock"}

\* Positions of the monitor inside the critical section of evaluate_simulation_status.
MonitorCritical == {"check_death", "death_unlock", "check_satisfied", "eval_unlock"}

\* C13: no task holds the state lock across a wait: a philosopher that holds
\* it is not sleeping, not in a responsive wait and not requesting a fork; the
\* monitor holds it only inside evaluate_simulation_status, never while it
\* sleeps for the polling interval, joins, or emits "died"; and no usleep
\* starts or ends, and no fork is locked, by the holder of the state lock.
C13_NoWaitUnderStateLock ==
    /\ [](\A p \in Philosophers :
            data_mutex = p => pc[p] \notin WaitPositions /\ phase[p] = "none"
                                                         /\ ret[p] # "spend")
    /\ [](data_mutex = MonitorTask <=> mpc \in MonitorCritical)
    /\ [](mpc \in {"monitor_usleep", "print_died", "join"} => data_mutex # MonitorTask)
    /\ [][died_log' # died_log => data_mutex # MonitorTask /\ data_mutex' # MonitorTask]_vars
    /\ [][mpc' = "monitor_usleep" => data_mutex' # MonitorTask]_vars
    /\ [][\A p \in Philosophers : \A f \in Forks :
            (fork_mutexes'[f] = p /\ fork_mutexes[f] # p) => data_mutex # p]_vars

\* C13 witness: the monitor sleeps for the polling interval after a scan, with
\* the state lock free, while a philosopher that updated its meal record is in
\* its eating wait.
C13_Witness ==
    /\ mpc = "monitor_usleep"
    /\ data_mutex = 0
    /\ \E p \in Philosophers :
          pc[p] = "spend_usleep" /\ phase[p] = "eat" /\ meals_eaten[p] >= 1

----------------------------------------------------------------------------
\* A record whose last_meal_time is written for the current meal and whose
\* meals_eaten is not yet incremented for it (between lines 140 and 141).
TornRecord(p) == pc[p] = "meal_count"

\* Positions of the monitor at which it reads the records.
MonitorReads == {"check_death", "check_satisfied"}

\* C14: a philosopher writes last_meal_time and meals_eaten only while it
\* holds the state lock, and only its position between lines 139 and 142
\* does; the monitor reads the records only while it holds the state lock; so
\* the monitor never reads while some record is torn.
C14_MealRecordAtomicity ==
    /\ [](\A p \in Philosophers :
            pc[p] \in {"meal_time", "meal_count", "meal_unlock"} <=> data_mutex = p)
    /\ [][\A p \in Philosophers :
            (last_meal_time'[p] # last_meal_time[p] \/ meals_eaten'[p] # meals_eaten[p])
                => data_mutex = p /\ data_mutex' = p]_vars
    /\ [](mpc \in MonitorReads => data_mutex = MonitorTask)
    /\ [](mpc \in MonitorReads => \A p \in Philosophers : ~ TornRecord(p))
    /\ [][(death_philosopher_id' # death_philosopher_id \/ all_satisfied' # all_satisfied)
            => /\ data_mutex = MonitorTask
               /\ \A p \in Philosophers : ~ TornRecord(p)]_vars

\* C14 witness: the monitor waits for the state lock while a philosopher's
\* record is torn (last_meal_time written, meals_eaten not yet incremented).
C14_Witness ==
    /\ mpc = "eval_lock"
    /\ \E p \in Philosophers :
          /\ TornRecord(p)
          /\ data_mutex = p
          /\ last_meal_time[p] = now
          /\ now > 0
          /\ meals_eaten[p] = 0

----------------------------------------------------------------------------
\* The message that may follow message m of philosopher p in the cycle
\* first fork, second fork, "is eating", "is sleeping", "is thinking".
FollowingMsg(p, m) ==
    LET first == IF p % 2 = 1 THEN "has taken a left fork" ELSE "has taken a right fork"
        second == IF p % 2 = 1 THEN "has taken a right fork" ELSE "has taken a left fork"
    IN  IF m = "none" \/ m = "is thinking" THEN first
        ELSE IF m = first THEN second
        ELSE IF m = second THEN "is eating"
        ELSE IF m = "is eating" THEN "is sleeping"
        ELSE "is thinking"

\* The reads of the flag in philosopher_lifecycle (lines 172, 175, 179).
LoopSites == {"loop", "after_eat", "after_sleep"}

\* C15: with two or more philosophers the messages of one philosopher follow
\* the cycle first fork, second fork, "is eating", "is sleeping", "is
\* thinking"; "is sleeping" is emitted only after the eat phase of the cycle
\* is complete (meal recorded, both forks released) and "is thinking" only
\* after the sleep; each of the two is emitted only after a read of the flag
\* as false, a read of the flag as true in philosopher_lifecycle leads to the
\* return with no further message, and a returned philosopher is silent.
C15_PhaseOrdering ==
    /\ [][\A p \in Philosophers :
            last_msg'[p] # last_msg[p] => last_msg'[p] = FollowingMsg(p, last_msg[p])]_vars
    /\ [][\A p \in Philosophers :
            (last_msg'[p] = "is sleeping" /\ last_msg[p] # "is sleeping") =>
                /\ last_msg[p] = "is eating"
                /\ \A f \in Forks : fork_mutexes[f] # p
                /\ meals_eaten[p] >= 1
                /\ phase[p] = "none"]_vars
    /\ [][\A p \in Philosophers :
            (pc'[p] = "print_sleeping" /\ pc[p] # "print_sleeping") =>
                pc[p] = "is_finished" /\ ret[p] = "after_eat" /\ ~ simulation_ended]_vars
    /\ [][\A p \in Philosophers :
            (pc'[p] = "print_thinking" /\ pc[p] # "print_thinking") =>
                /\ pc[p] = "is_finished" /\ ret[p] = "after_sleep" /\ ~ simulation_ended
                /\ last_msg[p] = "is sleeping"]_vars
    /\ [][\A p \in Philosophers :
            (pc[p] = "is_finished" /\ ret[p] \in LoopSites /\ simulation_ended
               /\ pc'[p] # pc[p]) =>
                pc'[p] = "returned" /\ last_msg'[p] = last_msg[p]]_vars
    /\ [][\A p \in Philosophers :
            pc[p] = "returned" => pc'[p] = "returned" /\ last_msg'[p] = last_msg[p]]_vars

\* C15 witness: one philosopher has gone through eat, sleep and think and has
\* taken a fork again, another has left the loop after its eat phase without
\* emitting "is sleeping".
C15_Witness ==
    \E p, q \in Philosophers :
        /\ p # q
        /\ meals_eaten[p] = 1
        /\ pc[p] = "acquire_second"
        /\ pc[q] = "returned"
        /\ last_msg[q] = "is eating"

----------------------------------------------------------------------------
\* One philosopher in a long responsive wait: philo_spend_time(time_to_die + 1)
\* of line 133 with more than 10 ms to wait.
WaitMaxTime == 13
WaitCounts == {1}
WaitTimeToDieValues == {11}
WaitRequiredMealsValues == {-1}

WaitInit ==
    /\ philosopher_count \in WaitCounts
    /\ time_to_die \in WaitTimeToDieValues
    /\ time_to_eat \in TimeToEatValues
    /\ time_to_sleep \in TimeToSleepValues
    /\ required_meals \in WaitRequiredMealsValues
    /\ InitState

WaitTick == TickTo(WaitMaxTime)

\* The steps of an odd philosopher alone (no staggered start).
WaitNext ==
    \/ WaitTick
    \/ \E p \in Philosophers :
          \/ LifecycleStart(p)
          \/ IsSimulationFinished(p)
          \/ SpendStart(p)
          \/ SpendCheck(p)
          \/ SpendUsleep(p)
          \/ PrintSleeping(p)
          \/ PrintThinking(p)
          \/ ThinkUsleep(p)
          \/ SingleEat(p)
    \/ Monitor

WaitSpec == WaitInit /\ [][WaitNext]_vars

\* The sleep increment as claimed, in microseconds, for the remaining milliseconds.
ClaimedIncrementUs(remaining) ==
    IF remaining > 10 THEN 1000 ELSE IF remaining > 1 THEN 100 ELSE 10

\* A philosopher inside philo_spend_time.
InSpend(p) == phase[p] # "none" /\ pc[p] # "spend_start"

----------------------------------------------------------------------------
\* Two philosophers with an eating time of 2 ms: half the eating time is a
\* whole millisecond.
StaggerMaxTime == 4
StaggerCounts == {2}
StaggerTimeToDieValues == {4}
StaggerTimeToEatValues == {2}
StaggerRequiredMealsValues == {1}

StaggerInit ==
    /\ philosopher_count \in StaggerCounts
    /\ time_to_die \in StaggerTimeToDieValues
    /\ time_to_eat \in StaggerTimeToEatValues
    /\ time_to_sleep \in TimeToSleepValues
    /\ required_meals \in StaggerRequiredMealsValues
    /\ InitState

StaggerTick == TickTo(StaggerMaxTime)

\* The steps of a philosopher of an even ring (no pause after "is thinking").
StaggerNext ==
    \/ StaggerTick
    \/ \E p \in Philosophers :
          \/ LifecycleStart(p)
          \/ StaggerUsleep(p)
          \/ IsSimulationFinished(p)
          \/ SpendStart(p)
          \/ SpendCheck(p)
          \/ SpendUsleep(p)
          \/ PrintSleeping(p)
          \/ PrintThinking(p)
          \/ PairEat(p)
    \/ Monitor

StaggerSpec == StaggerInit /\ [][StaggerNext]_vars

\* A philosopher that has not yet reached the loop of philosopher_lifecycle.
BeforeFirstCycle(p) == pc[p] \in {"start", "stagger_usleep"}

\* C17 (as claimed): an even-id philosopher reaches its first cycle no earlier
\* than time_to_eat / 2 milliseconds after the start; an odd-id philosopher
\* enters its first cycle without any delay.
C17_StaggerHalfEatMs ==
    \A p \in Philosophers :
        /\ (p % 2 = 0 /\ ~ BeforeFirstCycle(p)) => now >= time_to_eat \div 2
        /\ (p % 2 = 1) => pc[p] # "stagger_usleep"

----------------------------------------------------------------------------
\* Whose step a step is: every step of a philosopher moves its position, every
\* step of the monitor moves mpc or the index of its cleanup loops.
StepOf(p) == pc'[p] # pc[p]
StepOfMonitor == mpc' # mpc \/ join_i' # join_i

\* C18: the monitor never holds a fork lock, its steps change no fork lock
\* except to destroy it and write no meal record; a step of a philosopher
\* writes no record of another philosopher and does not write the flag; every
\* write of a record is a step of its owner in lines 140-141, and every write
\* of the flag is a step of the monitor's scan.
C18_FrameConditions ==
    /\ [](\A f \in Forks : fork_mutexes[f] # MonitorTask)
    /\ [][StepOfMonitor =>
            /\ last_meal_time' = last_meal_time
            /\ meals_eaten' = meals_eaten
            /\ \A f \in Forks : fork_mutexes'[f] \in {fork_mutexes[f], -1}]_vars
    /\ [][\A p \in Philosophers :
            StepOf(p) =>
                /\ simulation_ended' = simulation_ended
                /\ \A q \in Philosophers \ {p} :
                       /\ last_meal_time'[q] = last_meal_time[q]
                       /\ meals_eaten'[q] = meals_eaten[q]]_vars
    /\ [][\A p \in Philosophers :
            (last_meal_time'[p] # last_meal_time[p] \/ meals_eaten'[p] # meals_eaten[p]) =>
                StepOf(p) /\ pc[p] \in {"meal_time", "meal_count"}]_vars
    /\ [][simulation_ended' # simulation_ended =>
            StepOfMonitor /\ mpc \in {"check_death", "check_satisfied"}]_vars

\* C18 witness: of two philosophers one has written its own record twice and
\* the other's record is as initialised, and the monitor has set the flag.
C18_Witness ==
    /\ philosopher_count = 2
    /\ simulation_ended
    /\ \E p, q \in Philosophers :
          /\ meals_eaten[p] = 2 /\ last_meal_time[p] > 0
          /\ meals_eaten[q] = 0 /\ last_meal_time[q] = 0

----------------------------------------------------------------------------
\* The philosophers that are starving at the current clock value.
Starving == {p \in Philosophers : now - last_meal_time[p] >= time_to_die}

\* Every philosopher has eaten required_meals times.
EveryoneSatisfied ==
    required_meals # -1 /\ \A p \in Philosophers : meals_eaten[p] >= required_meals

\* C19: a scan that finds a starving philosopher classifies the run as
\* Died(lowest starving id) and does not evaluate the satisfaction check,
\* whether or not every philosopher is satisfied; the satisfaction check is
\* evaluated only by a scan that found nobody starving; a run is never both
\* Died and AllSatisfied, and a finished run is exactly one of them.
C19_DeathPriority ==
    /\ [][(mpc = "check_death" /\ mpc' # mpc /\ Starving # {}) =>
            /\ death_philosopher_id' \in Starving
            /\ \A q \in Starving : death_philosopher_id' <= q
            /\ simulation_ended'
            /\ mpc' = "death_unlock"
            /\ all_satisfied' = FALSE]_vars
    /\ [][(mpc = "check_death" /\ mpc' = "check_satisfied") => Starving = {}]_vars
    /\ [][all_satisfied' # all_satisfied =>
            mpc = "check_satisfied" /\ death_philosopher_id = 0]_vars
    /\ [](~ (all_satisfied /\ (death_philosopher_id > 0 \/ died_log # <<>>)))
    /\ [](mpc \in {"join", "destroy_forks", "destroy_data", "done"} =>
            (all_satisfied /\ died_log = <<>>) \/ (~ all_satisfied /\ Len(died_log) = 1))

\* C19 witness: the scan has just found a starving philosopher while every
\* philosopher is satisfied (the monitor still holds the state lock).
C19_Witness ==
    /\ EveryoneSatisfied
    /\ mpc = "death_unlock"
    /\ data_mutex = MonitorTask
    /\ death_philosopher_id \in Starving
    /\ ~ all_satisfied

----------------------------------------------------------------------------
\* The fork locks a philosopher owns, read off the locks themselves.
OwnedForks(p) == {f \in Forks : fork_mutexes[f] = p}

BothForks(p) == {left_fork_index(p), right_fork_index(p)}

\* The phases of a philosopher, by its position.
UpdatingRecord(p) == pc[p] \in {"meal_lock", "meal_time", "meal_count", "meal_unlock"}
Sleeping(p) == pc[p] = "print_sleeping" \/ phase[p] = "sleep"
Thinking(p) == pc[p] \in {"print_thinking", "think_usleep"}

\* C20: with two or more philosophers a philosopher owns no fork lock but its
\* left and its right one; it owns both while it updates its meal record and
\* throughout its eating wait; it owns none while it sleeps, thinks, is
\* between phases, or has returned, whether the flag was set during its eat
\* phase or not.
C20_ForksByPhase ==
    \A p \in Philosophers :
        /\ OwnedForks(p) \subseteq BothForks(p)
        /\ (UpdatingRecord(p) \/ phase[p] = "eat") => OwnedForks(p) = BothForks(p)
        /\ (Sleeping(p) \/ Thinking(p)) => OwnedForks(p) = {}
        /\ pc[p] = "returned" => OwnedForks(p) = {}
        /\ (pc[p] = "is_finished" /\ ret[p] \in LoopSites) => OwnedForks(p) = {}
        /\ OwnedForks(p) = HeldForks(p)

\* C20 witness: the flag was set during the eat phases: one philosopher has
\* returned after its eat phase owning no fork while another is still in its
\* eating wait owning both of its forks.
C20_Witness ==
    /\ simulation_ended
    /\ \E p, q \in Philosophers :
          /\ pc[p] = "returned" /\ last_msg[p] = "is eating" /\ OwnedForks(p) = {}
          /\ InEatingWait(q) /\ OwnedForks(q) = BothForks(q)

====
